---- MODULE Spec2Model ----
(***************************************************************************)
(* Model of the task-glitch analytics engine (src/src/utils/logic.ts) and  *)
(* of the useTasks hook that owns the task collection                      *)
(* (src/src/hooks/useTasks.ts).                                            *)
(*                                                                         *)
(* JavaScript numbers are records [k, n, d]: k = "fin" is the rational     *)
(* n/d in lowest terms with d > 0, k = "nan" is NaN, k = "inf" is          *)
(* +Infinity (n = 1) or -Infinity (n = -1), and k = "null" is the null     *)
(* that computeROI returns.  Rational arithmetic is exact; the inputs      *)
(* are chosen so that the double of every quotient that is rounded is      *)
(* either exact (a dyadic fraction) or not a rounding tie.                 *)
(*                                                                         *)
(* An optional field (completedAt, lastDeleted) is <<>> when undefined or  *)
(* null and <<v>> when it holds v.  A timestamp is a day number, the days  *)
(* since 1970-01-01, in a timezone whose offset is zero.                   *)
(***************************************************************************)
EXTENDS Integers, Sequences, FiniteSets

VARIABLES
  tasks,          \* useState<Task[]>: the task collection
  loading,        \* useState(true)
  error,          \* useState<string | null>: <<>> or <<message>>
  lastDeleted,    \* useState<Task | null>: <<>> or <<task>>
  nextUuid,       \* the next identifier crypto.randomUUID() hands out
  derivedSorted,  \* useMemo: sortTasks(tasks.map(withDerived))
  metrics,        \* useMemo: the Metrics object
  undoSees,       \* useCallback: the lastDeleted that undoDelete closes over
  op,             \* history: the last hook operation and its arguments
  beforeDelete,   \* history: the collection the last deleteTask started from
  call,           \* an engine function applied to arguments
  ret             \* <<>> before the call returns, <<result>> after

vars == <<tasks, loading, error, lastDeleted, nextUuid, derivedSorted,
          metrics, undoSees, op, beforeDelete, call, ret>>

hookVars == <<tasks, loading, error, lastDeleted, nextUuid, derivedSorted,
              metrics, undoSees, op, beforeDelete>>

----------------------------------------------------------------------------
(* Bounds of the model.                                                    *)

MaxSortLen == 3
MaxWeekTasks == 2
MaxWeekly == 3
MaxHorizon == 2
MaxTasks == 2

----------------------------------------------------------------------------
(* JavaScript numbers.                                                     *)

Abs(i) == IF i < 0 THEN -i ELSE i

Sign(i) == IF i < 0 THEN -1 ELSE IF i > 0 THEN 1 ELSE 0

RECURSIVE GCD(_, _)
GCD(a, b) == IF b = 0 THEN a ELSE GCD(b, a % b)

Rat(n, d) ==
  LET g == GCD(Abs(n), Abs(d))
      s == IF d < 0 THEN -1 ELSE 1
  IN  [k |-> "fin", n |-> (s * n) \div g, d |-> (s * d) \div g]

Fin(n) == [k |-> "fin", n |-> n, d |-> 1]
NaN == [k |-> "nan", n |-> 0, d |-> 1]
PosInf == [k |-> "inf", n |-> 1, d |-> 1]
NegInf == [k |-> "inf", n |-> -1, d |-> 1]
Null == [k |-> "null", n |-> 0, d |-> 1]

Inf(s) == IF s < 0 THEN NegInf ELSE PosInf

isFinite(x) == x.k = "fin"

\* x === y on numbers: NaN equals nothing
NumEq(x, y) == x.k # "nan" /\ y.k # "nan" /\ x = y

\* x > y: false when either side is NaN
NumGt(x, y) ==
  CASE x.k = "nan" \/ y.k = "nan" -> FALSE
    [] x.k = "inf" /\ y.k = "inf" -> x.n > y.n
    [] x.k = "inf" -> x.n > 0
    [] y.k = "inf" -> y.n < 0
    [] OTHER -> x.n * y.d > y.n * x.d

NumGe(x, y) == NumGt(x, y) \/ NumEq(x, y)

NumLe(x, y) == NumGe(y, x)

NumNeg(x) == IF x.k = "nan" THEN NaN ELSE [x EXCEPT !.n = -x.n]

NumAdd(x, y) ==
  CASE x.k = "nan" \/ y.k = "nan" -> NaN
    [] x.k = "inf" /\ y.k = "inf" -> IF x.n = y.n THEN x ELSE NaN
    [] x.k = "inf" -> x
    [] y.k = "inf" -> y
    [] OTHER -> Rat(x.n * y.d + y.n * x.d, x.d * y.d)

NumSub(x, y) == NumAdd(x, NumNeg(y))

NumMul(x, y) ==
  CASE x.k = "nan" \/ y.k = "nan" -> NaN
    [] x.k = "inf" \/ y.k = "inf" ->
         IF x.n = 0 \/ y.n = 0 THEN NaN ELSE Inf(Sign(x.n) * Sign(y.n))
    [] OTHER -> Rat(x.n * y.n, x.d * y.d)

\* x / y, the zero of a zero divisor taken as +0
NumDiv(x, y) ==
  CASE x.k = "nan" \/ y.k = "nan" -> NaN
    [] x.k = "inf" /\ y.k = "inf" -> NaN
    [] x.k = "inf" -> Inf(IF y.n < 0 THEN -x.n ELSE x.n)
    [] y.k = "inf" -> Fin(0)
    [] y.n = 0 -> IF x.n = 0 THEN NaN ELSE Inf(x.n)
    [] OTHER -> Rat(x.n * y.d, x.d * y.n)

\* the sign a comparator result is read by: NaN and 0 both mean "equal"
NumSign(x) == IF x.k = "nan" THEN 0 ELSE Sign(x.n)

\* Math.max(0, x)
Max0(x) ==
  IF x.k = "nan" THEN NaN ELSE IF NumGt(x, Fin(0)) THEN x ELSE Fin(0)

\* Number(x.toFixed(2)) for a finite x: the nearest multiple of 1/100, the
\* larger magnitude on a tie
toFixed2(x) ==
  LET m == (200 * Abs(x.n) + x.d) \div (2 * x.d)
  IN  Rat(Sign(x.n) * m, 100)

----------------------------------------------------------------------------
(* Core logic.                                                             *)

\* computeROI with the guard timeTaken < 0
computeROI_ZeroTime(revenue, timeTaken) ==
  IF ~isFinite(revenue) \/ ~isFinite(timeTaken) \/ NumGt(Fin(0), timeTaken)
  THEN Null
  ELSE LET q == NumDiv(revenue, timeTaken)
       IN  IF isFinite(q) THEN toFixed2(q) ELSE q

computeROI(revenue, timeTaken) ==
  IF ~isFinite(revenue) \/ ~isFinite(timeTaken) \/ NumLe(timeTaken, Fin(0))
  THEN Null
  ELSE toFixed2(NumDiv(revenue, timeTaken))

computePriorityWeight(priority) ==
  CASE priority = "High" -> 3
    [] priority = "Medium" -> 2
    [] OTHER -> 1

\* {...t, ...p}
Spread(t, p) ==
  [f \in DOMAIN t \cup DOMAIN p |-> IF f \in DOMAIN p THEN p[f] ELSE t[f]]

withDerived(task) ==
  Spread(task, [roi |-> computeROI(task.revenue, task.timeTaken),
                priorityWeight |-> computePriorityWeight(task.priority)])

\* The titles of the model and their place in the collation order of
\* String.prototype.localeCompare: lower case before upper case, and two
\* canonically equivalent strings (the composed and the decomposed spelling
\* of "Zoe" with a diaeresis) in the same place.
Titles == {"alpha", "Alpha", "Zoe(NFC)", "Zoe(NFD)"}

CollationKey(title) ==
  CASE title = "alpha" -> 1
    [] title = "Alpha" -> 2
    [] title = "Zoe(NFC)" -> 3
    [] title = "Zoe(NFD)" -> 3

localeCompare(s, t) == Sign(CollationKey(s) - CollationKey(t))

\* the comparator without its last step, the comparison of the titles
compare_NoTitle(a, b) ==
  LET aROI == IF a.roi = Null THEN NegInf ELSE a.roi
      bROI == IF b.roi = Null THEN NegInf ELSE b.roi
  IN  IF ~NumEq(bROI, aROI) THEN NumSign(NumSub(bROI, aROI))
      ELSE Sign(b.priorityWeight - a.priorityWeight)

\* the comparator with the ROI ascending
compare_Ascending(a, b) ==
  LET aROI == IF a.roi = Null THEN NegInf ELSE a.roi
      bROI == IF b.roi = Null THEN NegInf ELSE b.roi
  IN  IF ~NumEq(bROI, aROI) THEN NumSign(NumSub(aROI, bROI))
      ELSE IF b.priorityWeight # a.priorityWeight
           THEN Sign(b.priorityWeight - a.priorityWeight)
           ELSE localeCompare(a.title, b.title)

\* the comparator of sortTasks, by its sign
compare(a, b) ==
  LET aROI == IF a.roi = Null THEN NegInf ELSE a.roi
      bROI == IF b.roi = Null THEN NegInf ELSE b.roi
  IN  IF ~NumEq(bROI, aROI) THEN NumSign(NumSub(bROI, aROI))
      ELSE IF b.priorityWeight # a.priorityWeight
           THEN Sign(b.priorityWeight - a.priorityWeight)
           ELSE localeCompare(a.title, b.title)

\* x goes after every element that does not compare after it
RECURSIVE Insert(_, _)
Insert(x, s) ==
  IF s = <<>> THEN <<x>>
  ELSE IF compare(x, Head(s)) < 0 THEN <<x>> \o s
       ELSE <<Head(s)>> \o Insert(x, Tail(s))

\* Array.prototype.sort is stable
RECURSIVE StableSort(_, _)
StableSort(s, acc) ==
  IF s = <<>> THEN acc ELSE StableSort(Tail(s), Insert(Head(s), acc))

sortTasks(ts) == StableSort(ts, <<>>)


\* reduce((s, v) => s + v, acc) over a sequence of numbers
RECURSIVE SumFrom(_, _)
SumFrom(acc, s) ==
  IF s = <<>> THEN acc ELSE SumFrom(NumAdd(acc, Head(s)), Tail(s))

IsDone(t) == t.status = "Done"

computeTotalRevenue(ts) ==
  LET done == SelectSeq(ts, IsDone)
  IN  SumFrom(Fin(0), [i \in 1..Len(done) |-> done[i].revenue])

computeTotalTimeTaken(ts) ==
  SumFrom(Fin(0), [i \in 1..Len(ts) |-> ts[i].timeTaken])

\* computeTimeEfficiency without the guard for the empty collection
computeTimeEfficiency_NoGuard(ts) ==
  LET done == Len(SelectSeq(ts, IsDone))
  IN  NumMul(NumDiv(Fin(done), Fin(Len(ts))), Fin(100))

computeTimeEfficiency(ts) ==
  IF Len(ts) = 0 THEN Fin(0)
  ELSE LET done == Len(SelectSeq(ts, IsDone))
       IN  NumMul(NumDiv(Fin(done), Fin(Len(ts))), Fin(100))

computeRevenuePerHour(ts) ==
  LET revenue == computeTotalRevenue(ts)
      time == computeTotalTimeTaken(ts)
  IN  IF NumGt(time, Fin(0)) THEN NumDiv(revenue, time) ELSE Fin(0)

computeAverageROI(ts) ==
  LET all == [i \in 1..Len(ts) |-> computeROI(ts[i].revenue, ts[i].timeTaken)]
      rois == SelectSeq(all, isFinite)
  IN  IF Len(rois) # 0 THEN NumDiv(SumFrom(Fin(0), rois), Fin(Len(rois)))
      ELSE Fin(0)

computePerformanceGrade(avgROI) ==
  IF NumGt(avgROI, Fin(500)) THEN "Excellent"
  ELSE IF NumGe(avgROI, Fin(200)) THEN "Good"
       ELSE "Needs Improvement"

----------------------------------------------------------------------------
(* Analytics helpers.                                                      *)

CountStatus(ts, status) ==
  Cardinality({i \in 1..Len(ts) : ts[i].status = status})

\* computeFunnel with done as the catch-all of the statuses
computeFunnel_CatchAll(ts) ==
  [todo |-> CountStatus(ts, "Todo"),
   inProgress |-> CountStatus(ts, "In Progress"),
   done |-> Len(ts) - CountStatus(ts, "Todo") - CountStatus(ts, "In Progress")]

computeFunnel(ts) ==
  [todo |-> CountStatus(ts, "Todo"),
   inProgress |-> CountStatus(ts, "In Progress"),
   done |-> CountStatus(ts, "Done")]

\* The calendar behind Date: years from 1970 on, months 0..11.
IsLeap(y) == (y % 4 = 0 /\ y % 100 # 0) \/ y % 400 = 0

LeapsBefore(y) == ((y - 1) \div 4) - ((y - 1) \div 100) + ((y - 1) \div 400)

DaysBeforeYear(y) == 365 * (y - 1970) + LeapsBefore(y) - LeapsBefore(1970)

DaysInMonth(y, m) ==
  CASE m = 1 -> IF IsLeap(y) THEN 29 ELSE 28
    [] m \in {3, 5, 8, 10} -> 30
    [] OTHER -> 31

RECURSIVE DaysBeforeMonth(_, _)
DaysBeforeMonth(y, m) ==
  IF m = 0 THEN 0 ELSE DaysBeforeMonth(y, m - 1) + DaysInMonth(y, m - 1)

\* Date.UTC(y, m, d) in days; a day of month outside the month carries over
DateUTC(y, m, d) == DaysBeforeYear(y) + DaysBeforeMonth(y, m) + d - 1

RECURSIVE YearFrom(_, _)
YearFrom(y, day) ==
  IF day < DaysBeforeYear(y + 1) THEN y ELSE YearFrom(y + 1, day)

getFullYear(day) == YearFrom(1970, day)

RECURSIVE MonthFrom(_, _, _)
MonthFrom(y, m, rest) ==
  IF rest < DaysInMonth(y, m) THEN m
  ELSE MonthFrom(y, m + 1, rest - DaysInMonth(y, m))

getMonth(day) ==
  LET y == getFullYear(day) IN MonthFrom(y, 0, day - DaysBeforeYear(y))

getDate(day) ==
  LET y == getFullYear(day)
  IN  day - DaysBeforeYear(y) - DaysBeforeMonth(y, getMonth(day)) + 1

\* 1970-01-01 was a Thursday; Sunday is 0
getUTCDay(day) == (day + 4) % 7

getWeekNumber(d) ==
  LET date == DateUTC(getFullYear(d), getMonth(d), getDate(d))
      day == IF getUTCDay(date) = 0 THEN 7 ELSE getUTCDay(date)
      thursday == DateUTC(getFullYear(date), getMonth(date),
                          getDate(date) + 4 - day)
      yearStart == DateUTC(getFullYear(thursday), 0, 1)
  IN  \* Math.ceil((days + 1) / 7)
      ((thursday - yearStart) + 1 + 6) \div 7

\* String(n) for a natural number
Digit(n) == CASE n = 0 -> "0" [] n = 1 -> "1" [] n = 2 -> "2" [] n = 3 -> "3"
              [] n = 4 -> "4" [] n = 5 -> "5" [] n = 6 -> "6" [] n = 7 -> "7"
              [] n = 8 -> "8" [] n = 9 -> "9"

RECURSIVE NatToString(_)
NatToString(n) ==
  IF n < 10 THEN Digit(n) ELSE NatToString(n \div 10) \o Digit(n % 10)

WeekKey(t) ==
  LET d == t.completedAt[1]
  IN  NatToString(getFullYear(d)) \o "-W" \o NatToString(getWeekNumber(d))

\* the Map after the tasks of s are added to it, its entries in insertion order
RECURSIVE Bucketed(_, _)
Bucketed(map, s) ==
  IF s = <<>> THEN map
  ELSE LET t == Head(s) IN
       IF t.completedAt = <<>> THEN Bucketed(map, Tail(s))
       ELSE LET key == WeekKey(t)
                at == {i \in 1..Len(map) : map[i].week = key}
            IN  IF at = {}
                THEN Bucketed(Append(map, [week |-> key, count |-> 1,
                                           revenue |-> NumAdd(Fin(0), t.revenue)]),
                              Tail(s))
                ELSE LET i == CHOOSE j \in at : TRUE
                     IN  Bucketed([map EXCEPT ![i] =
                                     [week |-> key, count |-> @.count + 1,
                                      revenue |-> NumAdd(@.revenue, t.revenue)]],
                                  Tail(s))

computeThroughputByWeek(ts) == Bucketed(<<>>, ts)

DefaultHorizon == 4

\* computeForecast without Math.max(0, avg)
computeForecast_NoFloor(weekly, horizon) ==
  LET h == IF horizon = <<>> THEN DefaultHorizon ELSE horizon[1] IN
  IF Len(weekly) < 2 THEN <<>>
  ELSE LET avg == NumDiv(SumFrom(Fin(0), [i \in 1..Len(weekly) |->
                                            weekly[i].revenue]),
                         Fin(Len(weekly)))
       IN  [i \in 1..h |-> [week |-> "+" \o NatToString(i), revenue |-> avg]]

\* horizon is <<>> when the argument is omitted
computeForecast(weekly, horizon) ==
  LET h == IF horizon = <<>> THEN DefaultHorizon ELSE horizon[1] IN
  IF Len(weekly) < 2 THEN <<>>
  ELSE LET avg == NumDiv(SumFrom(Fin(0), [i \in 1..Len(weekly) |->
                                            weekly[i].revenue]),
                         Fin(Len(weekly)))
       IN  [i \in 1..h |-> [week |-> "+" \o NatToString(i), revenue |-> Max0(avg)]]

\* whole days between two timestamps, never negative
daysBetween(a, b) == IF b - a > 0 THEN b - a ELSE 0

average(arr) ==
  IF Len(arr) # 0 THEN NumDiv(SumFrom(Fin(0), arr), Fin(Len(arr))) ELSE Fin(0)

Priorities == {"High", "Medium", "Low"}

VelocityGroup(ts, priority) ==
  LET in == SelectSeq(ts, LAMBDA t : t.completedAt # <<>> /\ t.priority = priority)
  IN  [i \in 1..Len(in) |-> Fin(daysBetween(in[i].createdAt, in[i].completedAt[1]))]

\* groups[t.priority] is undefined for a priority outside the three
computeVelocityByPriority(ts) ==
  IF \E i \in 1..Len(ts) :
       ts[i].completedAt # <<>> /\ ts[i].priority \notin Priorities
  THEN "TypeError"
  ELSE [p \in Priorities |-> [avgDays |-> average(VelocityGroup(ts, p))]]

\* weights[t.status] is undefined for a status outside the three
Weight(status) ==
  CASE status = "Todo" -> Rat(1, 10)
    [] status = "In Progress" -> Rat(1, 2)
    [] status = "Done" -> Fin(1)
    [] OTHER -> NaN

computeWeightedPipeline(ts) ==
  SumFrom(Fin(0), [i \in 1..Len(ts) |-> NumMul(ts[i].revenue, Weight(ts[i].status))])


----------------------------------------------------------------------------
(* The useTasks hook.  An action is one event: the handler runs once, and  *)
(* React renders again before the next event is handled, so the memoised   *)
(* values and the lastDeleted that undoDelete closes over are those of the *)
(* new state.                                                              *)

\* the day the session takes place on, and an earlier day found in the data
Today == DateUTC(2025, 0, 1)
Earlier == DateUTC(2024, 11, 30)

INITIAL_METRICS ==
  [totalRevenue |-> Fin(0), totalTimeTaken |-> Fin(0),
   timeEfficiencyPct |-> Fin(0), revenuePerHour |-> Fin(0),
   averageROI |-> Fin(0), performanceGrade |-> "Needs Improvement"]

Metrics(ts) ==
  IF Len(ts) = 0 THEN INITIAL_METRICS
  ELSE [totalRevenue |-> computeTotalRevenue(ts),
        totalTimeTaken |-> SumFrom(Fin(0), [i \in 1..Len(ts) |-> ts[i].timeTaken]),
        timeEfficiencyPct |-> computeTimeEfficiency(ts),
        revenuePerHour |-> computeRevenuePerHour(ts),
        averageROI |-> computeAverageROI(ts),
        performanceGrade |-> computePerformanceGrade(computeAverageROI(ts))]

DerivedSorted(ts) == sortTasks([i \in 1..Len(ts) |-> withDerived(ts[i])])

\* the two useMemo values of the render that follows a state change
Render(ts) ==
  /\ derivedSorted' = DerivedSorted(ts)
  /\ metrics' = Metrics(ts)

\* useCallback(..., [lastDeleted]): the render hands out an undoDelete that
\* closes over the lastDeleted of the new state
Closure == undoSees' = lastDeleted'

\* t.f ?? dflt on a parsed JSON object
OrElse(t, f, dflt) == IF f \in DOMAIN t THEN t[f] ELSE dflt

\* Number(t.f): NaN for a field that is absent
ToNumber(t, f) == OrElse(t, f, NaN)

\* how many of the first n elements get their id from crypto.randomUUID()
NoIdBefore(input, n) == Cardinality({j \in 1..n : "id" \notin DOMAIN input[j]})

normalizeTasks(input, uuid, now) ==
  [idx \in 1..Len(input) |->
     LET t == input[idx]
         revenue == ToNumber(t, "revenue")
         timeTaken == ToNumber(t, "timeTaken")
     IN  [id |-> OrElse(t, "id", uuid + NoIdBefore(input, idx - 1)),
          title |-> t.title,
          revenue |-> IF isFinite(revenue) /\ NumGt(revenue, Fin(0))
                      THEN revenue ELSE Fin(0),
          timeTaken |-> IF isFinite(timeTaken) /\ NumGt(timeTaken, Fin(0))
                        THEN timeTaken ELSE Fin(1),
          priority |-> OrElse(t, "priority", "Low"),
          status |-> OrElse(t, "status", "Todo"),
          notes |-> OrElse(t, "notes", ""),
          createdAt |-> OrElse(t, "createdAt", now),
          completedAt |-> IF "status" \in DOMAIN t /\ t.status = "Done"
                          THEN <<OrElse(t, "completedAt", now)>>
                          ELSE <<>>]]

\* The objects tasks.json holds in the model: a Done task with an id and a
\* completedAt, and a task with no id and no numbers whose status is none of
\* the three.
RawSamples ==
  { [id |-> 101, title |-> "alpha", revenue |-> Fin(300), timeTaken |-> Fin(2),
     priority |-> "High", status |-> "Done", notes |-> "n",
     createdAt |-> Earlier, completedAt |-> Earlier],
    [title |-> "Zoe(NFC)", status |-> "Blocked"] }

RawInputs == UNION {[1..n -> RawSamples] : n \in 1..MaxTasks}

\* the arguments of addTask in the model
AddSamples ==
  { [title |-> "Alpha", revenue |-> Fin(300), timeTaken |-> NaN,
     priority |-> "High", status |-> "Done", notes |-> ""],
    [title |-> "Zoe(NFD)", revenue |-> Fin(-5), timeTaken |-> Fin(0),
     priority |-> "Low", status |-> "Todo", notes |-> ""],
    [title |-> "alpha", revenue |-> PosInf, timeTaken |-> Fin(4),
     priority |-> "Medium", status |-> "In Progress", notes |-> ""] }

\* the patches of updateTask in the model
Patches ==
  { [status |-> "Done", revenue |-> Fin(-5), timeTaken |-> Fin(0),
     completedAt |-> <<>>] }

RawIds == {101}

\* crypto.randomUUID() hands out 1, 2, ... and the model stops at MaxUuid
MaxUuid == MaxTasks

Ids == 1..MaxUuid \cup RawIds

InitHook ==
  /\ tasks = <<>>
  /\ loading = TRUE
  /\ error = <<>>
  /\ lastDeleted = <<>>
  /\ nextUuid = 1
  /\ derivedSorted = <<>>
  /\ metrics = INITIAL_METRICS
  /\ undoSees = <<>>
  /\ op = [name |-> "mount", arg |-> <<>>]
  /\ beforeDelete = <<>>

Init ==
  /\ InitHook
  /\ call = [fn |-> "none"]
  /\ ret = <<>>

\* load(): fetch and res.json() succeed.  An answer that normalises to the
\* empty collection is replaced by generateSalesTasks(50), which is not part
\* of the sources; the model loads non-empty arrays only.
LoadOk ==
  \E data \in RawInputs :
    LET normalized == normalizeTasks(data, nextUuid, Today)
        used == NoIdBefore(data, Len(data))
    IN  /\ loading
        /\ nextUuid + used <= MaxUuid + 1
        /\ tasks' = normalized
        /\ nextUuid' = nextUuid + used
        /\ loading' = FALSE
        /\ Render(normalized)
        /\ UNCHANGED <<error, lastDeleted, call, ret>>
        /\ Closure

\* load(): fetch fails, the status is not ok, or the body does not parse
LoadFail ==
  /\ loading
  /\ error' = <<"Failed to load tasks">>
  /\ loading' = FALSE
  /\ UNCHANGED <<tasks, lastDeleted, nextUuid, derivedSorted, metrics,
                 call, ret>>
  /\ Closure

NewTask(task, uuid, now) ==
  Spread(task,
         [id |-> uuid,
          revenue |-> IF NumGt(task.revenue, Fin(0)) THEN task.revenue
                      ELSE Fin(0),
          timeTaken |-> IF NumGt(task.timeTaken, Fin(0)) THEN task.timeTaken
                        ELSE Fin(1),
          createdAt |-> now,
          completedAt |-> IF task.status = "Done" THEN <<now>> ELSE <<>>])

AddTask ==
  \E task \in AddSamples :
    LET next == Append(tasks, NewTask(task, nextUuid, Today))
    IN  /\ nextUuid <= MaxUuid
        /\ Len(tasks) < MaxTasks
        /\ tasks' = next
        /\ nextUuid' = nextUuid + 1
        /\ Render(next)
        /\ UNCHANGED <<loading, error, lastDeleted, call, ret>>
        /\ Closure

\* patch.timeTaken && patch.timeTaken > 0
PatchesTime(patch) ==
  /\ "timeTaken" \in DOMAIN patch
  /\ patch.timeTaken.k # "nan"
  /\ patch.timeTaken # Fin(0)
  /\ NumGt(patch.timeTaken, Fin(0))

\* updateTask that takes completedAt from the patch when it has one
Updated_PatchedCompletedAt(t, patch, now) ==
  Spread(Spread(t, patch),
         [timeTaken |-> IF PatchesTime(patch) THEN patch.timeTaken
                        ELSE t.timeTaken,
          completedAt |-> IF "completedAt" \in DOMAIN patch
                          THEN patch.completedAt
                          ELSE IF t.status # "Done" /\ "status" \in DOMAIN patch
                                  /\ patch.status = "Done"
                               THEN <<now>> ELSE t.completedAt])

Updated(t, patch, now) ==
  Spread(Spread(t, patch),
         [timeTaken |-> IF PatchesTime(patch) THEN patch.timeTaken
                        ELSE t.timeTaken,
          completedAt |-> IF t.status # "Done" /\ "status" \in DOMAIN patch
                             /\ patch.status = "Done"
                          THEN <<now>> ELSE t.completedAt])

UpdateTask ==
  \E id \in Ids, patch \in Patches :
    LET next == [i \in 1..Len(tasks) |->
                   IF tasks[i].id = id THEN Updated(tasks[i], patch, Today)
                   ELSE tasks[i]]
    IN  /\ tasks' = next
        /\ Render(next)
        /\ UNCHANGED <<loading, error, lastDeleted, nextUuid, call, ret>>
        /\ Closure

\* prev.find(t => t.id === id) || null
Find(ts, id) ==
  LET at == {i \in 1..Len(ts) : ts[i].id = id}
  IN  IF at = {} THEN <<>>
      ELSE <<ts[CHOOSE i \in at : \A j \in at : i <= j]>>

DeleteTask ==
  \E id \in Ids :
    LET next == SelectSeq(tasks, LAMBDA t : t.id # id)
    IN  /\ lastDeleted' = Find(tasks, id)
        /\ tasks' = next
        /\ Render(next)
        /\ UNCHANGED <<loading, error, nextUuid, call, ret>>
        /\ Closure

\* undoDelete without setLastDeleted(null)
UndoDelete_KeepsLast ==
  /\ IF undoSees = <<>>
     THEN UNCHANGED <<tasks, lastDeleted, derivedSorted, metrics>>
     ELSE LET next == Append(tasks, undoSees[1])
          IN  /\ tasks' = next
              /\ UNCHANGED lastDeleted
              /\ Render(next)
  /\ UNCHANGED <<loading, error, nextUuid, call, ret>>
  /\ Closure

UndoDelete ==
  /\ IF undoSees = <<>>
     THEN UNCHANGED <<tasks, lastDeleted, derivedSorted, metrics>>
     ELSE LET next == Append(tasks, undoSees[1])
          IN  /\ tasks' = next
              /\ lastDeleted' = <<>>
              /\ Render(next)
  /\ UNCHANGED <<loading, error, nextUuid, call, ret>>
  /\ Closure

hist == <<op, beforeDelete>>

Next ==
  \/ LoadOk /\ UNCHANGED hist
  \/ LoadFail /\ UNCHANGED hist
  \/ AddTask /\ UNCHANGED hist
  \/ UpdateTask /\ UNCHANGED hist
  \/ DeleteTask /\ UNCHANGED hist
  \/ UndoDelete /\ UNCHANGED hist

Spec == Init /\ [][Next]_vars

\* The hook driven by addTask, deleteTask and undoDelete alone, with the
\* history of the calls: op names the last call and, for undoDelete, the
\* lastDeleted it closed over; beforeDelete holds the collection a deleteTask
\* started from until a call other than undoDelete follows.
NextUndo ==
  \/ /\ AddTask
     /\ op' = [name |-> "addTask", arg |-> <<>>]
     /\ beforeDelete' = <<>>
  \/ /\ DeleteTask
     /\ op' = [name |-> "deleteTask", arg |-> <<>>]
     /\ beforeDelete' = <<tasks>>
  \/ /\ UndoDelete
     /\ op' = [name |-> "undoDelete", arg |-> undoSees]
     /\ UNCHANGED beforeDelete

SpecUndo == Init /\ [][NextUndo]_vars


----------------------------------------------------------------------------
(* The engine functions applied to arguments: call holds the function and  *)
(* its arguments, ret its result once it has returned.                     *)

Task(id, title, revenue, timeTaken, priority, completedAt) ==
  [id |-> id, title |-> title, revenue |-> revenue, timeTaken |-> timeTaken,
   priority |-> priority,
   status |-> IF completedAt = <<>> THEN "Todo" ELSE "Done",
   notes |-> "", createdAt |-> Earlier, completedAt |-> completedAt]

Idle == UNCHANGED <<hookVars, call>>

Returns(fn, result) ==
  /\ call.fn = fn
  /\ ret = <<>>
  /\ ret' = <<result>>
  /\ Idle

\* computeROI and withDerived
RevenueInputs ==
  {Fin(n) : n \in {-7, 0, 1, 5, 300}} \cup {NaN, PosInf, NegInf}

TimeInputs ==
  {Fin(n) : n \in {-2, 0, 1, 3, 8}} \cup {NaN, PosInf, NegInf}

PriorityInputs == Priorities \cup {"Urgent"}

InitROI ==
  /\ InitHook
  /\ ret = <<>>
  /\ \/ \E r \in RevenueInputs, t \in TimeInputs :
          call = [fn |-> "computeROI", revenue |-> r, timeTaken |-> t]
     \/ \E r \in RevenueInputs, t \in TimeInputs, p \in PriorityInputs :
          call = [fn |-> "withDerived",
                  task |-> Task(1, "alpha", r, t, p, <<>>)]

CallComputeROI ==
  Returns("computeROI", computeROI(call.revenue, call.timeTaken))

CallWithDerived == Returns("withDerived", withDerived(call.task))

NextROI ==
  \/ CallComputeROI
  \/ CallWithDerived

SpecROI == InitROI /\ [][NextROI]_vars

\* sortTasks: the derived tasks of the model, with a null ROI, two ROIs, two
\* priorities, and titles that collate apart and alike
SortSamples ==
  { withDerived(Task(0, x[1], Fin(5), Fin(x[2]), x[3], <<>>)) :
      x \in { <<"alpha", 0, "Low">>, <<"alpha", 0, "High">>,
              <<"Zoe(NFD)", 0, "High">>, <<"alpha", 2, "Low">>,
              <<"alpha", 2, "High">>, <<"Zoe(NFC)", 2, "High">>,
              <<"Zoe(NFD)", 2, "High">>, <<"Zoe(NFD)", 1, "Low">> } }

\* every task of the input has its own id
SortInputs ==
  UNION { { [i \in 1..n |-> [s[i] EXCEPT !.id = i]] : s \in [1..n -> SortSamples] } :
          n \in 0..MaxSortLen }

InitSort ==
  /\ InitHook
  /\ ret = <<>>
  /\ \E s \in SortInputs : call = [fn |-> "sortTasks", tasks |-> s]

CallSortTasks == Returns("sortTasks", sortTasks(call.tasks))

NextSort == CallSortTasks

SpecSort == InitSort /\ [][NextSort]_vars

\* computeThroughputByWeek: days on both sides of the turn of a year
WeekDays ==
  { DateUTC(2024, 0, 1), DateUTC(2024, 11, 29), DateUTC(2024, 11, 30),
    DateUTC(2025, 0, 1), DateUTC(2025, 0, 5), DateUTC(2025, 0, 6) }

WeekSamples ==
  { Task(0, "alpha", Fin(r), Fin(1), "Low", c) :
      r \in {100, 50}, c \in {<<>>} \cup {<<d>> : d \in WeekDays} }

WeekInputs ==
  UNION { { [i \in 1..n |-> [s[i] EXCEPT !.id = i]] : s \in [1..n -> WeekSamples] } :
          n \in 0..MaxWeekTasks }

InitWeek ==
  /\ InitHook
  /\ ret = <<>>
  /\ \E s \in WeekInputs : call = [fn |-> "computeThroughputByWeek", tasks |-> s]

CallThroughput ==
  Returns("computeThroughputByWeek", computeThroughputByWeek(call.tasks))

NextWeek == CallThroughput

SpecWeek == InitWeek /\ [][NextWeek]_vars

\* computeForecast
WeeklyInputs ==
  UNION { { [i \in 1..n |-> [week |-> "2025-W" \o NatToString(i),
                             revenue |-> Fin(r[i])]] :
              r \in [1..n -> {-300, 100, 300}] } :
          n \in 0..MaxWeekly }

HorizonInputs == {<<>>} \cup {<<h>> : h \in 0..MaxHorizon}

InitForecast ==
  /\ InitHook
  /\ ret = <<>>
  /\ \E w \in WeeklyInputs, h \in HorizonInputs :
       call = [fn |-> "computeForecast", weekly |-> w, horizon |-> h]

CallForecast ==
  Returns("computeForecast", computeForecast(call.weekly, call.horizon))

NextForecast == CallForecast

SpecForecast == InitForecast /\ [][NextForecast]_vars


----------------------------------------------------------------------------
(* Claims.                                                                 *)

Returned(fn) == call.fn = fn /\ ret # <<>>

NonFinite(x) == x.k \in {"nan", "inf"}

NonPositive(x) == x.k = "fin" /\ x.n <= 0

\* res is the multiple of 1/100 nearest to a / b, for integers a and b > 0,
\* and of two nearest ones the one farther from zero
RoundsTo2dp(res, a, b) ==
  /\ res.k = "fin"
  /\ 100 % res.d = 0
  /\ LET m == res.n * (100 \div res.d)
         off == 2 * Abs(m) * b - 200 * Abs(a)
     IN  /\ m = 0 \/ Sign(m) = Sign(a)
         /\ -b < off
         /\ off <= b

RoiIsNullFor(revenue, timeTaken) ==
  NonPositive(timeTaken) \/ NonFinite(timeTaken) \/ NonFinite(revenue)

\* C3: computeROI returns null exactly when timeTaken is non-positive or an
\* operand is not finite, and otherwise revenue / timeTaken rounded to two
\* decimal places; withDerived(task).roi is null for exactly those tasks.
C3_RoiContract ==
  /\ Returned("computeROI") =>
       /\ ret[1] = Null <=> RoiIsNullFor(call.revenue, call.timeTaken)
       /\ ret[1] # Null =>
            RoundsTo2dp(ret[1], call.revenue.n, call.timeTaken.n)
  /\ Returned("withDerived") =>
       /\ ret[1].roi = Null <=>
            RoiIsNullFor(call.task.revenue, call.task.timeTaken)
       /\ ret[1].roi # Null =>
            RoundsTo2dp(ret[1].roi, call.task.revenue.n, call.task.timeTaken.n)

\* a quotient that is a rounding tie has been rounded, and so has a null
C3_Witness ==
  /\ Returned("computeROI")
  /\ \/ call.revenue = Fin(-7) /\ call.timeTaken = Fin(8)
        /\ ret[1] = Rat(-88, 100)
     \/ call.revenue = Fin(5) /\ call.timeTaken = PosInf /\ ret[1] = Null

\* a before b in the order of the comparator
Before(a, b) == compare(a, b) < 0

\* a and b agree in all three keys of the cascade
SameKeys(a, b) ==
  /\ a.roi = b.roi
  /\ a.priorityWeight = b.priorityWeight
  /\ CollationKey(a.title) = CollationKey(b.title)

Permutations(n) ==
  {p \in [1..n -> 1..n] : \A i, j \in 1..n : p[i] = p[j] => i = j}

Permuted(s, p) == [i \in 1..Len(s) |-> s[p[i]]]

OrderDependsOnInput(s) ==
  \E p \in Permutations(Len(s)) : sortTasks(Permuted(s, p)) # sortTasks(s)

\* C1, as claimed: of two distinct derived tasks exactly one is ordered
\* before the other, so the output of sortTasks does not depend on the order
\* of its input.
C1_StrictTotalOrder ==
  Returned("sortTasks") =>
    LET s == call.tasks IN
    /\ \A i, j \in 1..Len(s) :
         i # j => (Before(s[i], s[j]) <=> ~Before(s[j], s[i]))
    /\ ~OrderDependsOnInput(s)

\* C1, amended: the comparator is a strict weak order.  Of two distinct
\* derived tasks exactly one is ordered before the other unless they agree
\* in ROI, priorityWeight and the collation of their titles; two that agree
\* are ordered neither way and sortTasks leaves them in their input order.
\* The output does not depend on the order of an input in which no two tasks
\* agree.
C1_StrictWeakOrder ==
  call.fn = "sortTasks" =>
    LET s == call.tasks
        n == Len(s)
    IN  /\ \A i, j \in 1..n :
             i # j =>
               /\ ~(Before(s[i], s[j]) /\ Before(s[j], s[i]))
               /\ (Before(s[i], s[j]) \/ Before(s[j], s[i]))
                    <=> ~SameKeys(s[i], s[j])
        /\ \A i, j, k \in 1..n :
             Before(s[i], s[j]) /\ Before(s[j], s[k]) => Before(s[i], s[k])
        /\ ret # <<>> =>
             /\ \A i, j \in 1..n :
                  i < j /\ SameKeys(s[i], s[j]) =>
                    \E x, y \in 1..n :
                      x < y /\ ret[1][x] = s[i] /\ ret[1][y] = s[j]
             /\ (\A i, j \in 1..n : i # j => ~SameKeys(s[i], s[j]))
                  => ~OrderDependsOnInput(s)

\* three tasks, two of which agree in every key, have been sorted
C1_Witness ==
  /\ Returned("sortTasks")
  /\ Len(call.tasks) = 3
  /\ SameKeys(call.tasks[1], call.tasks[3])
  /\ call.tasks[1].title # call.tasks[3].title
  /\ Before(call.tasks[2], call.tasks[1])
  /\ ret[1] = <<call.tasks[2], call.tasks[1], call.tasks[3]>>

\* the ROI a task is ranked by: null as -Infinity
RankROI(t) == IF t.roi = Null THEN NegInf ELSE t.roi

Count(s, x) == Cardinality({i \in 1..Len(s) : s[i] = x})

\* C2: sortTasks returns a permutation of its input in which an earlier
\* task never has the smaller ROI (null ranking below every number), on equal
\* ROI never the smaller priorityWeight, and on both equal never the later
\* title.
C2_SortedPermutation ==
  Returned("sortTasks") =>
    LET s == call.tasks
        out == ret[1]
    IN  /\ Len(out) = Len(s)
        /\ \A i \in 1..Len(s) : Count(out, s[i]) = Count(s, s[i])
        /\ \A e, l \in 1..Len(out) :
             e < l =>
               /\ NumGe(RankROI(out[e]), RankROI(out[l]))
               /\ RankROI(out[e]) = RankROI(out[l]) =>
                    /\ out[e].priorityWeight >= out[l].priorityWeight
                    /\ out[e].priorityWeight = out[l].priorityWeight =>
                         CollationKey(out[e].title) <= CollationKey(out[l].title)

\* an input that starts with a null ROI and is out of order in ROI and in
\* priority has been sorted
C2_Witness ==
  /\ Returned("sortTasks")
  /\ Len(call.tasks) = 3
  /\ call.tasks[1].roi = Null
  /\ call.tasks[2].roi # Null
  /\ call.tasks[3].roi = call.tasks[2].roi
  /\ call.tasks[3].priorityWeight > call.tasks[2].priorityWeight
  /\ ret[1] = <<call.tasks[3], call.tasks[2], call.tasks[1]>>


\* the Monday that starts the ISO 8601 week of a day: day 0 is a Thursday
IsoMonday(d) == d - ((d + 3) % 7)

CompletedIn(s) == {i \in 1..Len(s) : s[i].completedAt # <<>>}

\* the tasks of s completed in the ISO week that starts on Monday m
InIsoWeek(s, m) ==
  {i \in CompletedIn(s) : IsoMonday(s[i].completedAt[1]) = m}

RECURSIVE SumOver(_, _)
SumOver(s, I) ==
  IF I = {} THEN 0
  ELSE LET i == CHOOSE x \in I : TRUE
       IN  s[i].revenue.n + SumOver(s, I \ {i})

\* C4: computeThroughputByWeek returns one bucket for every ISO week that
\* holds a completed task, with the count and the revenue of the tasks of
\* that week, and two completed tasks share a bucket exactly when they were
\* completed in the same ISO week.
C4_OneBucketPerIsoWeek ==
  Returned("computeThroughputByWeek") =>
    LET s == call.tasks
        out == ret[1]
        mondays == {IsoMonday(s[i].completedAt[1]) : i \in CompletedIn(s)}
    IN  /\ Len(out) = Cardinality(mondays)
        /\ \A i, j \in CompletedIn(s) :
             WeekKey(s[i]) = WeekKey(s[j])
               <=> IsoMonday(s[i].completedAt[1]) = IsoMonday(s[j].completedAt[1])
        /\ \A m \in mondays :
             \E b \in 1..Len(out) :
               /\ out[b].count = Cardinality(InIsoWeek(s, m))
               /\ out[b].revenue = Fin(SumOver(s, InIsoWeek(s, m)))

ForecastLabels == <<"+1", "+2", "+3", "+4", "+5", "+6">>

\* C7: computeForecast returns nothing for fewer than two buckets, and
\* otherwise horizon entries (4 when the horizon is omitted), the i-th
\* labelled "+i", each with the revenue max(0, mean of the bucket revenues),
\* whatever the order of the buckets.
C7_FlatForecast ==
  Returned("computeForecast") =>
    LET w == call.weekly
        n == Len(w)
        h == IF call.horizon = <<>> THEN 4 ELSE call.horizon[1]
        total == SumOver(w, 1..n)
        out == ret[1]
    IN  IF n < 2 THEN out = <<>>
        ELSE /\ Len(out) = h
             /\ \A i \in 1..Len(out) :
                  /\ out[i].week = ForecastLabels[i]
                  /\ out[i].revenue.k = "fin"
                  /\ out[i].revenue.n >= 0
                  /\ IF total > 0
                     THEN out[i].revenue.n * n = total * out[i].revenue.d
                     ELSE out[i].revenue.n = 0
                  /\ out[i].revenue = out[1].revenue
             /\ \A p \in Permutations(n) :
                  computeForecast(Permuted(w, p), call.horizon) = out

\* three buckets whose mean is negative have been projected over the default
\* horizon, and two buckets whose mean is a fraction over a given one
C7_Witness ==
  /\ Returned("computeForecast")
  /\ \/ /\ Len(call.weekly) = 3
        /\ call.horizon = <<>>
        /\ SumOver(call.weekly, 1..3) = -500
        /\ Len(ret[1]) = 4
        /\ ret[1][4] = [week |-> "+4", revenue |-> Fin(0)]
     \/ /\ Len(call.weekly) = 3
        /\ call.horizon = <<2>>
        /\ SumOver(call.weekly, 1..3) = 100
        /\ Len(ret[1]) = 2


Zero == Fin(0)

\* C5: over the empty collection every aggregate returns its zero value, the
\* funnel is all zero, the throughput and its forecast are empty, every
\* velocity is 0, and the metrics of the hook are the defaults.
C5_EmptyDefaults ==
  Len(tasks) = 0 =>
    /\ computeTotalRevenue(tasks) = Zero
    /\ computeTotalTimeTaken(tasks) = Zero
    /\ computeTimeEfficiency(tasks) = Zero
    /\ computeRevenuePerHour(tasks) = Zero
    /\ computeAverageROI(tasks) = Zero
    /\ computeWeightedPipeline(tasks) = Zero
    /\ computeFunnel(tasks) = [todo |-> 0, inProgress |-> 0, done |-> 0]
    /\ computeThroughputByWeek(tasks) = <<>>
    /\ computeForecast(computeThroughputByWeek(tasks), <<>>) = <<>>
    /\ \A p \in Priorities :
         computeVelocityByPriority(tasks)[p] = [avgDays |-> Zero]
    /\ metrics = [totalRevenue |-> Zero, totalTimeTaken |-> Zero,
                  timeEfficiencyPct |-> Zero, revenuePerHour |-> Zero,
                  averageROI |-> Zero,
                  performanceGrade |-> "Needs Improvement"]

\* the last task of a loaded collection has been deleted
C5_Witness ==
  /\ Len(tasks) = 0
  /\ ~loading
  /\ lastDeleted # <<>>

Statuses == {"Todo", "In Progress", "Done"}

FunnelSum(f) == f.todo + f.inProgress + f.done

\* the tasks of ts whose status is st, counted one task at a time
RECURSIVE Tally(_, _)
Tally(ts, st) ==
  IF ts = <<>> THEN 0
  ELSE (IF Head(ts).status = st THEN 1 ELSE 0) + Tally(Tail(ts), st)

\* C6, as claimed: the counts of computeFunnel add up to the size of the
\* collection in every state the hook reaches.
C6_FunnelSumsToSize == FunnelSum(computeFunnel(tasks)) = Len(tasks)

\* C6, amended: each count of computeFunnel is the number of tasks with that
\* status, and the counts add up to the size of the collection less the tasks
\* whose status is none of the three, which normalizeTasks lets through.
C6_FunnelCountsKnownStatuses ==
  LET f == computeFunnel(tasks)
      other == {i \in 1..Len(tasks) : tasks[i].status \notin Statuses}
  IN  /\ f.todo = Tally(tasks, "Todo")
      /\ f.inProgress = Tally(tasks, "In Progress")
      /\ f.done = Tally(tasks, "Done")
      /\ FunnelSum(f) = Len(tasks) - Cardinality(other)

\* a collection with a task of a known status and one of an unknown status
C6_Witness ==
  /\ Len(tasks) = 2
  /\ \E i, j \in 1..2 :
       tasks[i].status = "Blocked" /\ tasks[j].status \in Statuses
  /\ FunnelSum(computeFunnel(tasks)) = 1

\* C8: every task of the collection has revenue >= 0 and timeTaken > 0.
C8_NumericConstraints ==
  \A i \in 1..Len(tasks) :
    /\ NumGe(tasks[i].revenue, Zero)
    /\ NumGt(tasks[i].timeTaken, Zero)

DoneHasCompletedAt ==
  \A i \in 1..Len(tasks) : tasks[i].status = "Done" => tasks[i].completedAt # <<>>

TaskSet(ts) == {ts[i] : i \in 1..Len(ts)}

\* what a step of the hook other than the load does to completedAt
CompletedAtStep ==
  loading' = loading =>
    IF nextUuid' # nextUuid
    THEN \* addTask
         /\ Len(tasks') = Len(tasks) + 1
         /\ SubSeq(tasks', 1, Len(tasks)) = tasks
         /\ LET t == tasks'[Len(tasks')]
            IN  t.completedAt = IF t.status = "Done" THEN <<Today>> ELSE <<>>
    ELSE IF Len(tasks') = Len(tasks)
         THEN \* updateTask, or a call that changes no task
              \A i \in 1..Len(tasks) :
                tasks'[i].completedAt =
                  IF tasks[i].status # "Done" /\ tasks'[i].status = "Done"
                  THEN <<Today>> ELSE tasks[i].completedAt
         ELSE \* deleteTask and undoDelete
              TaskSet(tasks') \cup TaskSet(lastDeleted')
                \subseteq TaskSet(tasks) \cup TaskSet(lastDeleted)

\* C10: every Done task has a completedAt.  addTask sets it for a Done task,
\* updateTask sets it to the current time exactly when the status goes from
\* another one to Done and keeps the task's own otherwise, whatever the
\* patch holds, and deleteTask and undoDelete leave it alone.
C10_DoneHasCompletedAt == []DoneHasCompletedAt /\ [][CompletedAtStep]_vars

\* a loaded Done task that a patch with an empty completedAt has updated
\* keeps the completedAt it was loaded with, next to a task the same patch
\* has completed
C10_Witness ==
  /\ Len(tasks) = 2
  /\ tasks[1].status = "Done" /\ tasks[1].revenue = Fin(-5)
  /\ tasks[1].completedAt = <<Earlier>>
  /\ tasks[2].status = "Done" /\ tasks[2].revenue = Fin(-5)
  /\ tasks[2].title = "Zoe(NFC)"
  /\ tasks[2].completedAt = <<Today>>

UniqueIds ==
  \A i, j \in 1..Len(tasks) : tasks[i].id = tasks[j].id => i = j

\* an undoDelete that follows a deleteTask, with other undoDelete at most in
\* between, gives back the collection the deleteTask started from
RoundTrip ==
  op.name = "undoDelete" /\ beforeDelete # <<>> =>
    /\ Len(tasks) = Len(beforeDelete[1])
    /\ TaskSet(tasks) = TaskSet(beforeDelete[1])
    /\ lastDeleted = <<>>

UndoOfNothing ==
  op'.name = "undoDelete" /\ lastDeleted = <<>> =>
    tasks' = tasks /\ lastDeleted' = <<>>

====
